---- MODULE Spec2Model ----
(***************************************************************************)
(* Model of the retrieval pipeline of package eazye (src/eazye.go):        *)
(* generateMail starts one worker goroutine that runs findEmails (UID      *)
(* SEARCH), getEmails (one batched UID FETCH, then per record: header      *)
(* check, newEmail, send on the responses channel, SetAsUnread,            *)
(* DeleteEmail) and finally the deferred close(responses).  The caller is  *)
(* the single consumer of the channel.                                     *)
(***************************************************************************)
EXTENDS Integers, Sequences, FiniteSets, TLC

\* Largest number of records one UID FETCH reply carries in the model.
MaxRecs == 3
\* Largest value of the package variable GenerateBufferSize in the model.
MaxBuf == 1

\* Message identifiers the server can hand out.
UIDs == 1..MaxRecs

\* RFC822.HEADER of a fetched record: missing, parseable, or malformed.
HeaderKinds == {"absent", "good", "bad"}

\* One element of fCmd.Data: the attributes of one FETCH response.
Records == [UID : UIDs, HEADER : HeaderKinds]

\* Error values a Response can carry (Err == "none" models a nil error).
NoErr == "none"

VARIABLES
    markAsRead,          \* argument of generateMail
    delete,              \* argument of generateMail
    GenerateBufferSize,  \* capacity the responses channel was made with
    pc,                  \* position of the worker goroutine
    seq,                 \* getEmails: the SeqSet built from the search results
    msgCount,            \* getEmails: number of search results counted
    fData,               \* getEmails: fCmd.Data, the records the fetch returned
    idx,                 \* getEmails: index of the record the loop is at
    email,               \* getEmails: the Email of the current record (0: zero value)
    err,                 \* the error the worker holds
    responses,           \* the channel's buffer
    closed,              \* number of times close(responses) has run
    stream,              \* history: every Response sent on the channel, in order
    ops,                 \* history: every command issued on c.Imap, in order
    consumer,            \* caller: "pulling", "abandoned" or "ended"
    received,            \* caller: the Responses it has received, in order
    entry,               \* which Generate* function was called, with its date
    search,              \* generateMail / findEmails: argument search
    since,               \* generateMail / findEmails: argument since (<<>>: nil)
    specs,               \* findEmails: the fields handed to UIDSearch
    z,                   \* VisibleText: the tokens z.Next() returns before its ErrorToken
    zErr,                \* VisibleText: z.Err() at the ErrorToken
    zpos,                \* VisibleText: number of the next token
    skip,                \* VisibleText: skip
    text,                \* VisibleText: text
    ret,                 \* VisibleText: what it returned
    mailbox,             \* the selected folder on the server: the flags of each message
    calls                \* history: the calls of DeleteEmail, SetAsUnread, SetAsRead

\* The variables of findEmails' search terms.
termVars == <<entry, search, since, specs>>

\* What the steps of one running retrieval call leave alone.
\* The variables of VisibleText.
vtVars == <<z, zErr, zpos, skip, text, ret>>

\* The variables of the flag calls made directly by a caller.
mbVars == <<mailbox, calls>>

others == <<termVars, vtVars, mbVars>>

vars == <<markAsRead, delete, GenerateBufferSize, pc, seq, msgCount, fData, idx,
          email, err, responses, closed, stream, ops, consumer, received, others>>

args == <<markAsRead, delete, GenerateBufferSize, others>>
locals == <<seq, msgCount, fData, idx, email>>
chanVars == <<responses, stream, received>>

----------------------------------------------------------------------------
(* Helpers *)

\* Response{Email: e} and Response{Err: x}
EmailResponse(e) == [Email |-> e, Err |-> NoErr]
ErrResponse(x) == [Email |-> 0, Err |-> x]

\* The replies a UID FETCH of the identifiers S can produce: at most MaxRecs
\* records, in any order, with pairwise different UIDs; a record that carries
\* the header belongs to a requested message, a header-less one (an
\* unsolicited flags-only FETCH response) may belong to any message.
FetchReplies(S) ==
    {r \in UNION {[1..k -> Records] : k \in 0..MaxRecs} :
        /\ \A i, j \in 1..Len(r) : i # j => r[i].UID # r[j].UID
        /\ \A i \in 1..Len(r) : r[i].HEADER # "absent" => r[i].UID \in S}

\* Bug variant: the error of mail.ReadMessage is dropped.
newEmailErrDropped(msgFields) == FALSE

\* newEmail: mail.ReadMessage fails on a malformed header; otherwise the
\* Email carries the record's UID.
newEmailErr(msgFields) == msgFields.HEADER = "bad"
newEmail(msgFields) == IF newEmailErr(msgFields) THEN 0 ELSE msgFields.UID

\* Bug variants: the channel is made without a buffer (every send needs a
\* waiting receiver), or a send never waits for room.
CanSendUnbuffered == consumer = "pulling"
CanSendAlways == TRUE

\* A send on the channel can proceed: there is room in the buffer, or the
\* channel is unbuffered and the caller is waiting to receive.
CanSend ==
    \/ Len(responses) < GenerateBufferSize
    \/ GenerateBufferSize = 0 /\ consumer = "pulling"

\* responses <- r
Send(r) ==
    /\ CanSend
    /\ stream' = Append(stream, r)
    /\ IF GenerateBufferSize = 0
       THEN /\ received' = Append(received, r)
            /\ responses' = responses
       ELSE /\ responses' = Append(responses, r)
            /\ received' = received

\* Bug variant: the error of a Session call is never looked at.
FailedIgnored(ok) == FALSE

\* "err != nil" after a Session call that answered ok
Failed(ok) == ~ok

\* Bug variant: the empty search result is not detected.
SeqEmptyNever(s) == FALSE

\* seq.Empty()
SeqEmpty(s) == s = {}

\* Bug variant: the loop walks fCmd.Data from its end.
RecordAtReversed(i) == fData[Len(fData) + 1 - i]

\* The record the range loop over fCmd.Data visits in its i-th iteration.
RecordAt(i) == fData[i]

\* Bug variant: the header check is missing.
HasHeaderAlways(msgFields) == TRUE

\* _, ok := msgFields["RFC822.HEADER"]
HasHeader(msgFields) == msgFields.HEADER # "absent"

\* Bug variants: the "return" after the send of an error is missing (the loop
\* goes on), or the goroutine ends there without closing the channel.
AfterErrContinue == IF idx \in 1..Len(fData) THEN "loop" ELSE "close"
AfterErrNoClose == "done"

\* The "return" that follows every send of an error: on to the deferred close.
AfterErr == "close"

\* Bug variant: a failed store is issued again.
OnStoreFailRetry == pc

\* A failed store is not repeated: its error is sent.
OnStoreFail == "sendErr"

\* Bug variant: the channel is closed a second time.
AfterCloseAgain == "close"

\* The goroutine ends when the deferred function has run.
AfterClose == "done"

\* Bug variants: the deletion comes first and ends the iteration, or the
\* \SEEN flag is removed whatever markAsRead says.
AfterEmailDeleteFirst ==
    IF delete THEN "delete" ELSE IF ~markAsRead THEN "unread" ELSE "next"
AfterEmailAlwaysUnread == "unread"

\* Bug variant: the \SEEN flag is never removed.
AfterEmailNoUnread == IF delete THEN "delete" ELSE "next"

\* Where the loop body goes after the Email was sent and after SetAsUnread.
AfterEmail == IF ~markAsRead THEN "unread" ELSE IF delete THEN "delete" ELSE "next"
AfterUnread == IF delete THEN "delete" ELSE "next"

\* c.Imap.UIDStore(fSeq, flg, flag) with fSeq = {UID}
StoreOp(uid, flag, plus, ok) ==
    [op |-> "store", ids |-> {uid}, flg |-> IF plus THEN "+FLAGS" ELSE "-FLAGS",
     flag |-> flag, ok |-> ok]

----------------------------------------------------------------------------
(* Initial state: generateMail has made the channel and started the worker *)

\* The call came in through GenerateAll.
TermsOfGenerateAll ==
    /\ entry = [mode |-> "All", date |-> <<>>]
    /\ search = "ALL"
    /\ since = <<>>
    /\ specs = <<>>

\* VisibleText is not running.
NoReturn == [text |-> <<>>, err |-> "unset"]
VisibleTextIdle ==
    /\ z = <<>>
    /\ zErr = "EOF"
    /\ zpos = 0
    /\ skip = FALSE
    /\ text = <<>>
    /\ ret = NoReturn

\* No flag call has been made by the caller.
NoFlagCalls ==
    /\ mailbox = [u \in UIDs |-> {}]
    /\ calls = <<>>

Init ==
    /\ TermsOfGenerateAll
    /\ VisibleTextIdle
    /\ NoFlagCalls
    /\ markAsRead \in BOOLEAN
    /\ delete \in BOOLEAN
    /\ GenerateBufferSize \in 0..MaxBuf
    /\ pc = "search"
    /\ seq = {}
    /\ msgCount = 0
    /\ fData = <<>>
    /\ idx = 0
    /\ email = 0
    /\ err = NoErr
    /\ responses = <<>>
    /\ closed = 0
    /\ stream = <<>>
    /\ ops = <<>>
    /\ consumer = "pulling"
    /\ received = <<>>

----------------------------------------------------------------------------
(* The worker goroutine *)

\* findEmails, and on success the head of getEmails: collect the identifiers
\* into seq and return (to the deferred close) when there are none.
Search ==
    /\ pc = "search"
    /\ \E ok \in BOOLEAN, ids \in SUBSET UIDs :
        /\ ops' = Append(ops, [op |-> "search", ids |-> {}, flg |-> "", flag |-> "",
                               ok |-> ok])
        /\ IF Failed(ok)
           THEN /\ ids = {}
                /\ err' = "search"
                /\ pc' = "sendErr"
                /\ UNCHANGED <<seq, msgCount>>
           ELSE /\ seq' = ids
                /\ msgCount' = Cardinality(ids)
                /\ err' = NoErr
                /\ pc' = IF SeqEmpty(ids) THEN "close" ELSE "fetch"
    /\ UNCHANGED <<args, fData, idx, email, closed, consumer, chanVars>>

\* imap.Wait(c.Imap.UIDFetch(seq, ...))
Fetch ==
    /\ pc = "fetch"
    /\ \E ok \in BOOLEAN :
        /\ ops' = Append(ops, [op |-> "fetch", ids |-> seq, flg |-> "", flag |-> "",
                               ok |-> ok])
        /\ IF Failed(ok)
           THEN /\ err' = "fetch"
                /\ pc' = "sendErr"
                /\ UNCHANGED <<fData, idx>>
           ELSE /\ fData' \in FetchReplies(seq)
                /\ idx' = 1
                /\ err' = NoErr
                /\ pc' = "loop"
    /\ UNCHANGED <<args, seq, msgCount, email, closed, consumer, chanVars>>

\* Head of the loop body: the header check and newEmail for record idx, or
\* the end of the loop.
NextRecord ==
    /\ pc = "loop"
    /\ IF idx > Len(fData)
       THEN /\ pc' = "close"
            /\ UNCHANGED <<idx, email, err>>
       ELSE LET msgFields == RecordAt(idx) IN
            IF ~HasHeader(msgFields)
            THEN /\ idx' = idx + 1
                 /\ pc' = "loop"
                 /\ UNCHANGED <<email, err>>
            ELSE /\ email' = newEmail(msgFields)
                 /\ err' = IF newEmailErr(msgFields) THEN "parse" ELSE NoErr
                 /\ pc' = IF newEmailErr(msgFields) THEN "sendErr" ELSE "sendEmail"
                 /\ idx' = idx
    /\ UNCHANGED <<args, seq, msgCount, fData, closed, ops, consumer, chanVars>>

\* Where "next" leads: the following record.
Advance(to) ==
    /\ pc' = IF to = "next" THEN "loop" ELSE to
    /\ idx' = IF to = "next" THEN idx + 1 ELSE idx

\* responses <- Response{Email: email}
SendEmail ==
    /\ pc = "sendEmail"
    /\ Send(EmailResponse(email))
    /\ Advance(AfterEmail)
    /\ UNCHANGED <<args, seq, msgCount, fData, email, err, closed, ops, consumer>>

\* c.SetAsUnread(email)
Unread ==
    /\ pc = "unread"
    /\ \E ok \in BOOLEAN :
        /\ ops' = Append(ops, StoreOp(email, "\\SEEN", FALSE, ok))
        /\ IF ~Failed(ok)
           THEN /\ Advance(AfterUnread)
                /\ err' = NoErr
           ELSE /\ pc' = OnStoreFail
                /\ err' = "unread"
                /\ idx' = idx
    /\ UNCHANGED <<args, seq, msgCount, fData, email, closed, consumer, chanVars>>

\* c.DeleteEmail(email)
Delete ==
    /\ pc = "delete"
    /\ \E ok \in BOOLEAN :
        /\ ops' = Append(ops, StoreOp(email, "\\DELETED", TRUE, ok))
        /\ IF ~Failed(ok)
           THEN /\ Advance("next")
                /\ err' = NoErr
           ELSE /\ pc' = OnStoreFail
                /\ err' = "delete"
                /\ idx' = idx
    /\ UNCHANGED <<args, seq, msgCount, fData, email, closed, consumer, chanVars>>

\* responses <- Response{Err: ...}; return
SendErr ==
    /\ pc = "sendErr"
    /\ Send(ErrResponse(err))
    /\ pc' = AfterErr
    /\ UNCHANGED <<args, locals, err, closed, ops, consumer>>

\* The deferred close(responses)
Close ==
    /\ pc = "close"
    /\ closed' = closed + 1
    /\ pc' = AfterClose
    /\ UNCHANGED <<args, locals, err, ops, consumer, chanVars>>

----------------------------------------------------------------------------
(* The caller *)

\* One iteration of "for resp := range responses" on a buffered channel.
Recv ==
    /\ consumer = "pulling"
    /\ responses # <<>>
    /\ received' = Append(received, Head(responses))
    /\ responses' = Tail(responses)
    /\ UNCHANGED <<args, locals, pc, err, closed, stream, ops, consumer>>

\* The range loop ends: the channel is closed and drained.
RecvClosed ==
    /\ consumer = "pulling"
    /\ responses = <<>>
    /\ closed > 0
    /\ consumer' = "ended"
    /\ UNCHANGED <<args, locals, pc, err, closed, ops, chanVars>>

\* The caller stops receiving (GetAll returns on the first resp.Err; a caller
\* of Generate* may stop at any point).
Abandon ==
    /\ consumer = "pulling"
    /\ consumer' = "abandoned"
    /\ UNCHANGED <<args, locals, pc, err, closed, ops, chanVars>>

----------------------------------------------------------------------------
Worker ==
    \/ Search
    \/ Fetch
    \/ NextRecord
    \/ SendEmail
    \/ Unread
    \/ Delete
    \/ SendErr
    \/ Close

Next ==
    \/ Worker
    \/ Recv
    \/ RecvClosed
    \/ Abandon

Spec == Init /\ [][Next]_vars

\* The caller keeps receiving until the channel is closed, every Session call
\* returns, and the scheduler runs a goroutine that can take a step.
NextPulling ==
    \/ Worker
    \/ Recv
    \/ RecvClosed

LiveSpec ==
    /\ Init
    /\ [][NextPulling]_vars
    /\ WF_vars(Worker)
    /\ WF_vars(Recv)
    /\ WF_vars(RecvClosed)

----------------------------------------------------------------------------
(* The search terms: GenerateAll, GenerateUnread, GenerateSince, findEmails *)

\* Years of the dates a caller passes in the model.
Years == {1999, 2006, 2024}
IsLeap(y) == (y % 4 = 0 /\ y % 100 # 0) \/ y % 400 = 0
DaysIn(m, y) ==
    IF m = 2 THEN (IF IsLeap(y) THEN 29 ELSE 28)
    ELSE IF m \in {4, 6, 9, 11} THEN 30 ELSE 31
\* The calendar dates a time.Time can show.
Dates == {d \in [year : Years, month : 1..12, day : 1..31] : d.day <= DaysIn(d.month, d.year)}

Digit(n) == <<"0", "1", "2", "3", "4", "5", "6", "7", "8", "9">>[n + 1]
\* n in decimal, padded with zeros to w digits.
RECURSIVE Pad(_, _)
Pad(n, w) == IF w = 0 THEN "" ELSE Pad(n \div 10, w - 1) \o Digit(n % 10)
\* n in decimal with no padding.
RECURSIVE Dec(_)
Dec(n) == IF n < 10 THEN Digit(n) ELSE Dec(n \div 10) \o Digit(n % 10)

shortMonthNames ==
    <<"Jan", "Feb", "Mar", "Apr", "May", "Jun", "Jul", "Aug", "Sep", "Oct", "Nov", "Dec">>

\* Bug variant: the layout "2-Jan-2006", a day without its leading zero.
FormatUnpadded(t) ==
    Dec(t.day) \o "-" \o shortMonthNames[t.month] \o "-" \o Pad(t.year, 4)

\* since.Format(dateFormat) with dateFormat = "02-Jan-2006"
Format(t) ==
    Pad(t.day, 2) \o "-" \o shortMonthNames[t.month] \o "-" \o Pad(t.year, 4)

\* Bug variant: the search string is made a term even when it is empty.
FindSpecsKeepEmpty(srch, snc) ==
    <<srch>> \o (IF snc # <<>> THEN <<"SINCE", Format(snc[1])>> ELSE <<>>)

\* findEmails: the specs it builds from its arguments.
FindSpecs(srch, snc) ==
    (IF Len(srch) > 0 THEN <<srch>> ELSE <<>>)
        \o (IF snc # <<>> THEN <<"SINCE", Format(snc[1])>> ELSE <<>>)

\* The retrieval call has not been made yet.
TermsInit ==
    /\ markAsRead \in BOOLEAN
    /\ delete \in BOOLEAN
    /\ GenerateBufferSize \in 0..MaxBuf
    /\ pc = "caller"
    /\ seq = {} /\ msgCount = 0 /\ fData = <<>> /\ idx = 0 /\ email = 0
    /\ err = NoErr
    /\ responses = <<>> /\ closed = 0 /\ stream = <<>> /\ ops = <<>>
    /\ consumer = "pulling" /\ received = <<>>
    /\ entry = [mode |-> "", date |-> <<>>]
    /\ search = ""
    /\ since = <<>>
    /\ specs = <<>>
    /\ VisibleTextIdle
    /\ NoFlagCalls

pipeVars == <<markAsRead, delete, GenerateBufferSize, seq, msgCount, fData, idx, email,
              err, responses, closed, stream, ops, consumer, received>>

\* c.generateMail("ALL", nil, markAsRead, delete)
GenerateAll ==
    /\ pc = "caller"
    /\ entry' = [mode |-> "All", date |-> <<>>]
    /\ search' = "ALL"
    /\ since' = <<>>
    /\ pc' = "findEmails"
    /\ UNCHANGED <<pipeVars, vtVars, mbVars, specs>>

\* c.generateMail("UNSEEN", nil, markAsRead, delete)
GenerateUnread ==
    /\ pc = "caller"
    /\ entry' = [mode |-> "Unread", date |-> <<>>]
    /\ search' = "UNSEEN"
    /\ since' = <<>>
    /\ pc' = "findEmails"
    /\ UNCHANGED <<pipeVars, vtVars, mbVars, specs>>

\* c.generateMail("", &since, markAsRead, delete)
GenerateSince ==
    /\ pc = "caller"
    /\ \E d \in Dates :
        /\ entry' = [mode |-> "Since", date |-> <<d>>]
        /\ since' = <<d>>
    /\ search' = ""
    /\ pc' = "findEmails"
    /\ UNCHANGED <<pipeVars, vtVars, mbVars, specs>>

\* findEmails up to the call of c.Imap.UIDSearch(specs...)
FindEmails ==
    /\ pc = "findEmails"
    /\ specs' = FindSpecs(search, since)
    /\ pc' = "searchSent"
    /\ UNCHANGED <<pipeVars, vtVars, mbVars, entry, search, since>>

TermsNext ==
    \/ GenerateAll
    \/ GenerateUnread
    \/ GenerateSince
    \/ FindEmails

TermsSpec == TermsInit /\ [][TermsNext]_vars

----------------------------------------------------------------------------
(* VisibleText *)

\* Largest number of tokens before the ErrorToken in the model.
MaxTokens == 4

nonVisibleTags ==
    <<"style", "script", "head", "meta", "doctype", "v:shape", "v:imagedata", "!">>

\* Bytes that bytes.TrimSpace takes for white space, among those of the model.
WhiteSpace == {" ", "\n"}

Token(tt, name, txt) == [tt |-> tt, name |-> name, text |-> txt]
TextToken(txt) == Token("Text", "", txt)
StartTagToken(name) == Token("StartTag", name, <<>>)
EndTagToken(name) == Token("EndTag", name, <<>>)
\* A token VisibleText has no case for (comment, doctype, self-closing tag).
CommentToken == Token("Comment", "", <<>>)

\* The tokens of the model: three texts (white space only, plain, padded),
\* start and end tags of two non-visible names and a visible one, a comment.
ModelTexts == {<<" ", "\n">>, <<"a">>, <<" ", "b", " ", "c", "\n">>}
ModelNames == {"style", "head", "b"}
ModelTokens ==
    {TextToken(t) : t \in ModelTexts}
        \cup {StartTagToken(n) : n \in ModelNames}
        \cup {EndTagToken(n) : n \in ModelNames}
        \cup {CommentToken}

\* <html><head><style>.a{}</style></head><body>Hi <b>there</b></body></html>
ExampleTokens ==
    << StartTagToken("html"), StartTagToken("head"), StartTagToken("style"),
       TextToken(<<".", "a", "{", "}">>), EndTagToken("style"), EndTagToken("head"),
       StartTagToken("body"), TextToken(<<"H", "i", " ">>), StartTagToken("b"),
       TextToken(<<"t", "h", "e", "r", "e">>), EndTagToken("b"), EndTagToken("body"),
       EndTagToken("html") >>

\* The inputs of the model.
TokenStreams ==
    UNION {[1..k -> ModelTokens] : k \in 0..MaxTokens} \cup {ExampleTokens}

RECURSIVE TrimLeft(_)
TrimLeft(b) == IF b # <<>> /\ Head(b) \in WhiteSpace THEN TrimLeft(Tail(b)) ELSE b
RECURSIVE TrimRight(_)
TrimRight(b) ==
    IF b # <<>> /\ b[Len(b)] \in WhiteSpace THEN TrimRight(SubSeq(b, 1, Len(b) - 1)) ELSE b

\* Bug variant: only the leading white space is cut.
TrimSpaceLeftOnly(b) == TrimLeft(b)

\* bytes.TrimSpace
TrimSpace(b) == TrimRight(TrimLeft(b))

\* Bug variant: only style is taken for a non-visible tag.
IsNonVisibleStyleOnly(tn) == tn = "style"

\* The loop over nonVisibleTags finds tn.
IsNonVisible(tn) == \E i \in 1..Len(nonVisibleTags) : nonVisibleTags[i] = tn

\* Bug variant: every non-visible tag flips skip.
SkipAfterTagToggled(tt, cur) == ~cur

\* skip = (tt == html.StartTagToken)
SkipAfterTag(tt, cur) == tt = "StartTag"

\* Bug variant: on a read failure the fragments are dropped.
ReturnOnErrorDropsText(t, e) ==
    [text |-> IF e = "EOF" THEN t ELSE <<>>, err |-> IF e = "EOF" THEN "nil" ELSE e]

\* case html.ErrorToken: return text, nil on io.EOF, return text, err otherwise
ReturnOnError(t, e) == [text |-> t, err |-> IF e = "EOF" THEN "nil" ELSE e]

\* z.Next(): the type of the next token
NextTokenType == IF zpos > Len(z) THEN "Error" ELSE z[zpos].tt

VTInit ==
    /\ markAsRead = FALSE /\ delete = FALSE /\ GenerateBufferSize = 0
    /\ pc = "vtLoop"
    /\ seq = {} /\ msgCount = 0 /\ fData = <<>> /\ idx = 0 /\ email = 0
    /\ err = NoErr
    /\ responses = <<>> /\ closed = 0 /\ stream = <<>> /\ ops = <<>>
    /\ consumer = "pulling" /\ received = <<>>
    /\ entry = [mode |-> "", date |-> <<>>]
    /\ search = "" /\ since = <<>> /\ specs = <<>>
    /\ z \in TokenStreams
    /\ zErr \in {"EOF", "unexpected"}
    /\ zpos = 1
    /\ skip = FALSE
    /\ text = <<>>
    /\ ret = NoReturn
    /\ NoFlagCalls

\* case html.ErrorToken
VTError ==
    /\ pc = "vtLoop"
    /\ NextTokenType = "Error"
    /\ ret' = ReturnOnError(text, zErr)
    /\ pc' = "vtReturned"
    /\ UNCHANGED <<pipeVars, termVars, mbVars, z, zErr, zpos, skip, text>>

\* case html.TextToken
VTText ==
    /\ pc = "vtLoop"
    /\ NextTokenType = "Text"
    /\ LET tmp == TrimSpace(z[zpos].text) IN
       text' = IF ~skip /\ Len(tmp) # 0 THEN Append(text, tmp) ELSE text
    /\ zpos' = zpos + 1
    /\ UNCHANGED <<pipeVars, termVars, mbVars, pc, z, zErr, skip, ret>>

\* case html.StartTagToken, html.EndTagToken
VTTag ==
    /\ pc = "vtLoop"
    /\ NextTokenType \in {"StartTag", "EndTag"}
    /\ skip' = IF IsNonVisible(z[zpos].name)
               THEN SkipAfterTag(NextTokenType, skip)
               ELSE skip
    /\ zpos' = zpos + 1
    /\ UNCHANGED <<pipeVars, termVars, mbVars, pc, z, zErr, text, ret>>

\* Any other token: the switch has no case for it.
VTOther ==
    /\ pc = "vtLoop"
    /\ NextTokenType \notin {"Error", "Text", "StartTag", "EndTag"}
    /\ zpos' = zpos + 1
    /\ UNCHANGED <<pipeVars, termVars, mbVars, pc, z, zErr, skip, text, ret>>

VTNext ==
    \/ VTError
    \/ VTText
    \/ VTTag
    \/ VTOther

VTSpec == VTInit /\ [][VTNext]_vars

----------------------------------------------------------------------------
(* DeleteEmail, SetAsUnread, SetAsRead called by a caller on its own *)

\* Largest number of flag calls a caller makes in the model.
MaxCalls == 2

Flags == {"\\SEEN", "\\DELETED"}

\* The Session's UID STORE: +FLAGS adds the flag to every message of ids,
\* -FLAGS removes it, the other messages and flags stay as they are.
SessionStore(mb, ids, flg, flag) ==
    [u \in DOMAIN mb |->
        IF u \in ids
        THEN IF flg = "+FLAGS" THEN mb[u] \cup {flag} ELSE mb[u] \ {flag}
        ELSE mb[u]]

\* Bug variant: DeleteEmail removes the flag.
DeleteEmailArgsMinus == [flag |-> "\\DELETED", plus |-> FALSE]

\* What DeleteEmail, SetAsUnread and SetAsRead hand to alterEmail.
DeleteEmailArgs == [flag |-> "\\DELETED", plus |-> TRUE]
SetAsUnreadArgs == [flag |-> "\\SEEN", plus |-> FALSE]
SetAsReadArgs == [flag |-> "\\SEEN", plus |-> TRUE]

\* Bug variant: the store goes to every message of the folder.
AlterStoreAll(uid, a, ok) ==
    [op |-> "store", ids |-> UIDs, flg |-> IF a.plus THEN "+FLAGS" ELSE "-FLAGS",
     flag |-> a.flag, ok |-> ok]

\* alterEmail: the one UIDStore it issues for the Email with identifier uid.
AlterStore(uid, a, ok) == StoreOp(uid, a.flag, a.plus, ok)

MailboxInit ==
    /\ markAsRead = FALSE /\ delete = FALSE /\ GenerateBufferSize = 0
    /\ pc = "client"
    /\ seq = {} /\ msgCount = 0 /\ fData = <<>> /\ idx = 0 /\ email = 0
    /\ err = NoErr
    /\ responses = <<>> /\ closed = 0 /\ stream = <<>> /\ ops = <<>>
    /\ consumer = "pulling" /\ received = <<>>
    /\ entry = [mode |-> "", date |-> <<>>]
    /\ search = "" /\ since = <<>> /\ specs = <<>>
    /\ VisibleTextIdle
    /\ mailbox \in [UIDs -> SUBSET Flags]
    /\ calls = <<>>

\* c.alterEmail(email, flag, plus) for the Email with identifier uid, the
\* Session performing the store (ok) or failing.
alterEmail(fn, a) ==
    /\ Len(calls) < MaxCalls
    /\ \E uid \in UIDs, ok \in BOOLEAN :
        LET store == AlterStore(uid, a, ok)
            after == IF ok THEN SessionStore(mailbox, store.ids, store.flg, store.flag)
                     ELSE mailbox
        IN /\ mailbox' = after
           /\ calls' = Append(calls, [fn |-> fn, uid |-> uid, stores |-> <<store>>,
                                      before |-> mailbox, after |-> after,
                                      err |-> IF Failed(ok) THEN "store" ELSE "nil"])
    /\ UNCHANGED <<pipeVars, termVars, vtVars, pc>>

DeleteEmail ==
    /\ pc = "client"
    /\ alterEmail("DeleteEmail", DeleteEmailArgs)

SetAsUnread ==
    /\ pc = "client"
    /\ alterEmail("SetAsUnread", SetAsUnreadArgs)

SetAsRead ==
    /\ pc = "client"
    /\ alterEmail("SetAsRead", SetAsReadArgs)

MailboxNext ==
    \/ DeleteEmail
    \/ SetAsUnread
    \/ SetAsRead

MailboxSpec == MailboxInit /\ [][MailboxNext]_vars

----------------------------------------------------------------------------
(* Vocabulary of the properties *)

Last(s) == s[Len(s)]
IsEmail(r) == r.Err = NoErr
IsErr(r) == r.Err # NoErr

\* The records of recs that carry the header, in order.
Kept(recs) == SelectSeq(recs, LAMBDA r : r.HEADER # "absent")
\* The Email Responses built from recs, record by record.
AsEmails(recs) == [i \in 1..Len(recs) |-> EmailResponse(recs[i].UID)]

\* What the Session answered.
SearchFailed == Len(ops) >= 1 /\ ~ops[1].ok
SearchOk == Len(ops) >= 1 /\ ops[1].ok
FetchIssued == \E i \in 1..Len(ops) : ops[i].op = "fetch"
FetchFailed == \E i \in 1..Len(ops) : ops[i].op = "fetch" /\ ~ops[i].ok
FetchOk == \E i \in 1..Len(ops) : ops[i].op = "fetch" /\ ops[i].ok
NoStoreFailed == \A i \in 1..Len(ops) : ops[i].op = "store" => ops[i].ok

\* Positions in ops of the stores of one flag for one identifier.
Stores(uid, flag) ==
    {i \in 1..Len(ops) : ops[i].op = "store" /\ ops[i].flag = flag /\ ops[i].ids = {uid}}
SeenStores(uid) == Stores(uid, "\\SEEN")
DeletedStores(uid) == Stores(uid, "\\DELETED")
StoreCount == Cardinality({i \in 1..Len(ops) : ops[i].op = "store"})

\* The identifiers of the records of fData from position k on.
UIDsFrom(k) == {fData[i].UID : i \in k..Len(fData)}
\* Positions of the records whose header does not parse.
BadAt == {i \in 1..Len(fData) : fData[i].HEADER = "bad"}
FirstBad == CHOOSE k \in BadAt : \A j \in BadAt : k <= j

----------------------------------------------------------------------------
(* C1: at most one Error is put on the stream, and nothing is put on the     *)
(* stream after it: in every state an Error Response can only be the last   *)
(* item of the stream.                                                      *)
C1_ErrorIsLast ==
    /\ \A i \in 1..Len(stream) : IsErr(stream[i]) => i = Len(stream)
    /\ Cardinality({i \in 1..Len(stream) : IsErr(stream[i])}) <= 1

C1_Witness ==
    /\ pc = "done"
    /\ Len(stream) = 3
    /\ IsEmail(stream[1]) /\ IsEmail(stream[2]) /\ IsErr(stream[3])
    /\ Len(fData) > idx

(* C2: search and fetch succeed, all N fetched records carry a header that  *)
(* parses and no store fails: when the worker is done the stream holds      *)
(* exactly the N Emails of the records, the k-th built from the k-th record.*)
C2_AllEmittedInOrder ==
    ( /\ pc = "done"
      /\ FetchOk
      /\ \A i \in 1..Len(fData) : fData[i].HEADER = "good"
      /\ NoStoreFailed )
    => /\ Len(stream) = Len(fData)
       /\ \A k \in 1..Len(fData) : stream[k] = EmailResponse(fData[k].UID)

C2_Witness ==
    /\ pc = "done"
    /\ FetchOk /\ NoStoreFailed
    /\ Len(fData) = 3
    /\ \A i \in 1..Len(fData) : fData[i].HEADER = "good"
    /\ fData[1].UID > fData[2].UID
    /\ Len(stream) = 3

(* C3: N well-formed records and one header-less record at any position:    *)
(* the header-less record puts nothing on the stream and does not stop the  *)
(* loop; the stream ends up with the N Emails of the others in their order  *)
(* and no Error.                                                            *)
C3_HeaderlessSkipped ==
    ( /\ pc = "done"
      /\ FetchOk
      /\ NoStoreFailed
      /\ Cardinality({i \in 1..Len(fData) : fData[i].HEADER = "absent"}) = 1
      /\ BadAt = {} )
    => /\ stream = AsEmails(Kept(fData))
       /\ Len(stream) = Len(fData) - 1
       /\ \A i \in 1..Len(stream) : IsEmail(stream[i])
       /\ idx = Len(fData) + 1

C3_Witness ==
    /\ pc = "done"
    /\ FetchOk /\ NoStoreFailed
    /\ Len(fData) = 3
    /\ fData[1].HEADER = "good" /\ fData[2].HEADER = "absent" /\ fData[3].HEADER = "good"
    /\ fData[1].UID > fData[3].UID
    /\ Len(stream) = 2

(* C4: with markAsRead = FALSE every Email on the stream gets exactly one   *)
(* store removing \SEEN from its identifier, issued after the Email was     *)
(* sent (it is still to come only while the worker stands between the send  *)
(* and the store); once such a store has failed it is the last command, the *)
(* loop stays at that record, and the stream is the Emails up to that       *)
(* record followed, once sent, by the one Error, and is then closed.        *)
C4_UnreadStores ==
    ~markAsRead =>
      /\ \A i \in 1..Len(stream) : IsEmail(stream[i]) =>
            Cardinality(SeenStores(stream[i].Email)) =
                IF i = Len(stream) /\ pc = "unread" THEN 0 ELSE 1
      /\ \A j \in 1..Len(ops) : (ops[j].op = "store" /\ ops[j].flag = "\\SEEN") =>
            /\ ops[j].flg = "-FLAGS"
            /\ \E i \in 1..Len(stream) : ops[j].ids = {stream[i].Email} /\ IsEmail(stream[i])
      /\ \A j \in 1..Len(ops) :
            (ops[j].op = "store" /\ ops[j].flag = "\\SEEN" /\ ~ops[j].ok) =>
            /\ j = Len(ops)
            /\ idx <= Len(fData) /\ ops[j].ids = {fData[idx].UID}
            /\ LET sent == AsEmails(Kept(SubSeq(fData, 1, idx))) IN
               /\ Last(sent).Email = fData[idx].UID
               /\ IF pc = "sendErr"
                  THEN stream = sent
                  ELSE /\ pc \in {"close", "done"}
                       /\ stream = Append(sent, ErrResponse("unread"))
            /\ pc = "done" => closed = 1
            /\ pc # "done" => closed = 0

C4_Witness ==
    /\ ~markAsRead
    /\ pc = "done"
    /\ closed = 1
    /\ Len(fData) = 3
    /\ idx = 2
    /\ Len(stream) = 3
    /\ stream[3] = ErrResponse("unread")
    /\ Len(ops) = 4
    /\ ~ops[4].ok /\ ops[4].flag = "\\SEEN"

(* C5: when the header of a fetched record does not parse (and no store     *)
(* failed before it is reached) no Email and no store is ever issued for    *)
(* that record or a later one, and when the worker is done the stream is    *)
(* the Emails of the header-bearing records before it followed by the one   *)
(* parse Error, and is closed.                                              *)
C5_ParseErrorFatal ==
    (FetchOk /\ BadAt # {}) =>
      /\ \A i \in 1..Len(stream) : IsEmail(stream[i]) => stream[i].Email \notin UIDsFrom(FirstBad)
      /\ \A j \in 1..Len(ops) : ops[j].op = "store" => ops[j].ids \cap UIDsFrom(FirstBad) = {}
      /\ idx <= FirstBad
      /\ (pc = "done" /\ NoStoreFailed) =>
            /\ stream = Append(AsEmails(Kept(SubSeq(fData, 1, FirstBad - 1))),
                               ErrResponse("parse"))
            /\ closed = 1
            /\ idx = FirstBad

C5_Witness ==
    /\ pc = "done"
    /\ FetchOk /\ NoStoreFailed
    /\ Len(fData) = 3
    /\ BadAt = {2}
    /\ fData[3].HEADER = "good"
    /\ stream = <<EmailResponse(fData[1].UID), ErrResponse("parse")>>
    /\ closed = 1

(* C6: a failed search is the only command of the call and a failed fetch  *)
(* is the second and last one (after the search, for its non-empty result); *)
(* the stream then holds nothing but, once sent, that one Error, and is     *)
(* closed when the worker is done.                                          *)
C6_SearchOrFetchErrorSole ==
    /\ SearchFailed =>
         /\ Len(ops) = 1
         /\ ~FetchIssued /\ StoreCount = 0
         /\ IF pc = "sendErr"
            THEN stream = <<>>
            ELSE pc \in {"close", "done"} /\ stream = <<ErrResponse("search")>>
         /\ pc = "done" => closed = 1
    /\ FetchFailed =>
         /\ Len(ops) = 2
         /\ ops[1].op = "search" /\ ops[1].ok
         /\ ops[2].ids = seq /\ seq # {}
         /\ StoreCount = 0
         /\ IF pc = "sendErr"
            THEN stream = <<>>
            ELSE pc \in {"close", "done"} /\ stream = <<ErrResponse("fetch")>>
         /\ pc = "done" => closed = 1

C6_Witness ==
    /\ FetchFailed
    /\ pc = "done"
    /\ stream = <<ErrResponse("fetch")>>
    /\ closed = 1
    /\ consumer = "ended"
    /\ received = stream

(* C7: a search that succeeds with no identifiers is the only command of   *)
(* the call (no fetch, no store); nothing is ever put on the stream, and    *)
(* the worker goes straight to closing it.                                  *)
C7_EmptySearchClosesEmpty ==
    (SearchOk /\ seq = {}) =>
      /\ Len(ops) = 1
      /\ stream = <<>> /\ responses = <<>> /\ received = <<>>
      /\ pc \in {"close", "done"}
      /\ pc = "done" => closed = 1

C7_Witness ==
    /\ SearchOk /\ seq = {}
    /\ pc = "done"
    /\ closed = 1
    /\ consumer = "ended"
    /\ received = <<>>

(* C8: the stream is closed at most once, only by the step that ends the   *)
(* worker, every way the worker ends has closed it, and no step puts a      *)
(* Response on the stream once it is closed.                                *)
C8_ClosedOnce ==
    [][ /\ closed' <= 1
        /\ closed' # closed => (pc = "close" /\ pc' = "done" /\ closed' = closed + 1)
        /\ pc' = "done" => closed' = 1
        /\ closed >= 1 => stream' = stream ]_vars

C8_Witness ==
    /\ pc = "done"
    /\ closed = 1
    /\ Len(stream) = 3
    /\ \A i \in 1..Len(stream) : IsEmail(stream[i])
    /\ consumer = "ended"

(* C9: when every Session call returns and the caller keeps receiving, the  *)
(* worker eventually closes the stream and the caller sees the end of it    *)
(* having received every Response; the caller's loop ends only on closure;  *)
(* and once an Error is on the stream the worker is at the close.           *)
C9_EventuallyClosed ==
    /\ <>[](closed = 1 /\ pc = "done" /\ consumer = "ended" /\ received = stream)
    /\ [](consumer = "ended" => closed = 1)
    /\ []((stream # <<>> /\ IsErr(Last(stream))) => pc \in {"close", "done"})

C9_Witness ==
    /\ closed = 1
    /\ consumer = "ended"
    /\ Len(received) = 3
    /\ IsErr(received[3])

(* C10: no command is repeated: one search once the worker has started, at  *)
(* most one fetch and that for the whole identifier set, per identifier at  *)
(* most one store removing \SEEN and at most one adding \DELETED, and       *)
(* nothing at all is issued after a command that failed.                    *)
C10_NoRetry ==
    /\ Cardinality({i \in 1..Len(ops) : ops[i].op = "search"}) =
           IF pc = "search" THEN 0 ELSE 1
    /\ Cardinality({i \in 1..Len(ops) : ops[i].op = "fetch"}) <= 1
    /\ \A i \in 1..Len(ops) : ops[i].op = "fetch" => (i = 2 /\ ops[i].ids = seq)
    /\ \A u \in UIDs :
         /\ Cardinality(SeenStores(u)) <= 1
         /\ Cardinality(DeletedStores(u)) <= 1
    /\ StoreCount <= 2 * Len(fData)
    /\ \A i \in 1..Len(ops) : ~ops[i].ok => i = Len(ops)

C10_Witness ==
    /\ pc = "done"
    /\ ~markAsRead /\ delete
    /\ Len(ops) = 6
    /\ ops[6].flag = "\\DELETED" /\ ~ops[6].ok
    /\ Last(stream) = ErrResponse("delete")

(* Positions where the worker stands at a send on the channel. *)
AtSend == pc \in {"sendEmail", "sendErr"}
QueueFull == Len(responses) = GenerateBufferSize

(* C11 as stated: a caller that has stopped receiving never stops the      *)
(* worker: as long as it has hit no fatal error and is not done, the worker *)
(* can take its next step.                                                  *)
C11_AbandonNeverStopsWorker ==
    (consumer = "abandoned" /\ pc # "done" /\ err = NoErr) => ENABLED Worker

(* C11 as amended: a caller that has stopped receiving does not cancel the  *)
(* worker, but the full queue stops it: until it is done the worker can     *)
(* take its next step exactly when it is not at a send with the queue full  *)
(* (with capacity 0, at any send); every Session command stays enabled.     *)
C11_AbandonStopsOnlyAtFullQueue ==
    (consumer = "abandoned" /\ pc # "done") =>
        (ENABLED Worker <=> ~(AtSend /\ QueueFull))

C11_Witness ==
    /\ consumer = "abandoned"
    /\ received = <<>>
    /\ GenerateBufferSize = 1
    /\ pc = "sendEmail"
    /\ idx = 2
    /\ Len(responses) = 1
    /\ Len(ops) >= 3
    /\ ~ENABLED Worker

C19_EmitUnreadDeleteOrder ==
    /\ \A j \in 1..Len(ops) : ops[j].op = "store" =>
          \E i \in 1..Len(stream) : IsEmail(stream[i]) /\ ops[j].ids = {stream[i].Email}
    /\ \A j \in 1..Len(ops) : (ops[j].op = "store" /\ ops[j].flag = "\\DELETED") =>
          /\ ops[j].flg = "+FLAGS"
          /\ ~markAsRead =>
                \E i \in 1..(j - 1) :
                    /\ ops[i].op = "store" /\ ops[i].flag = "\\SEEN"
                    /\ ops[i].ids = ops[j].ids /\ ops[i].ok
    /\ \A u \in UIDs :
          (\E i \in SeenStores(u) : ~ops[i].ok) => DeletedStores(u) = {}
    /\ \A j \in 1..Len(ops) :
          (ops[j].op = "store" /\ ops[j].flag = "\\DELETED" /\ ~ops[j].ok) =>
          /\ j = Len(ops)
          /\ idx <= Len(fData) /\ ops[j].ids = {fData[idx].UID}
          /\ LET sent == AsEmails(Kept(SubSeq(fData, 1, idx))) IN
             /\ Last(sent).Email = fData[idx].UID
             /\ IF pc = "sendErr"
                THEN stream = sent
                ELSE /\ pc \in {"close", "done"}
                     /\ stream = Append(sent, ErrResponse("delete"))

C19_Witness ==
    /\ ~markAsRead /\ delete
    /\ pc = "done"
    /\ Len(fData) = 3
    /\ idx = 2
    /\ Len(ops) = 6
    /\ ops[5].flag = "\\SEEN" /\ ops[5].ok
    /\ ops[6].flag = "\\DELETED" /\ ~ops[6].ok
    /\ Len(stream) = 3
    /\ stream[3] = ErrResponse("delete")

(* C20: stores are issued only as asked and only for emitted messages: no   *)
(* \SEEN store with markAsRead = TRUE, no \DELETED store with delete =      *)
(* FALSE, none at all with both, and never a store for a record without a   *)
(* header or with a header that does not parse.                             *)
C20_StoresOnlyAsRequested ==
    /\ markAsRead => \A u \in UIDs : SeenStores(u) = {}
    /\ ~delete => \A u \in UIDs : DeletedStores(u) = {}
    /\ (markAsRead /\ ~delete) => StoreCount = 0
    /\ \A j \in 1..Len(ops) : ops[j].op = "store" =>
          /\ ops[j].flag \in {"\\SEEN", "\\DELETED"}
          /\ \E i \in 1..Len(fData) :
                /\ i <= idx
                /\ fData[i].HEADER = "good"
                /\ ops[j].ids = {fData[i].UID}
    /\ \A i \in 1..Len(fData) : fData[i].HEADER # "good" =>
          \A j \in 1..Len(ops) : ops[j].op = "store" => fData[i].UID \notin ops[j].ids

C20_Witness ==
    /\ markAsRead /\ ~delete
    /\ pc = "done"
    /\ Len(fData) = 3
    /\ fData[2].HEADER = "absent"
    /\ Len(stream) = 2
    /\ IsEmail(stream[2])
    /\ Len(ops) = 2

(* The date as DD-Mon-YYYY, read off tables. *)
DayNames ==
    <<"01", "02", "03", "04", "05", "06", "07", "08", "09", "10", "11", "12", "13",
      "14", "15", "16", "17", "18", "19", "20", "21", "22", "23", "24", "25", "26",
      "27", "28", "29", "30", "31">>
YearName(y) == CASE y = 1999 -> "1999" [] y = 2006 -> "2006" [] y = 2024 -> "2024"
DDMonYYYY(d) ==
    DayNames[d.day] \o "-"
      \o <<"Jan", "Feb", "Mar", "Apr", "May", "Jun", "Jul", "Aug", "Sep", "Oct", "Nov",
           "Dec">>[d.month]
      \o "-" \o YearName(d.year)

(* C13: the terms handed to UIDSearch depend on the retrieval mode alone:   *)
(* All gives <<"ALL">>, Unread gives <<"UNSEEN">>, Since(date) gives        *)
(* <<"SINCE", date as DD-Mon-YYYY>> and nothing else, whatever markAsRead   *)
(* and delete are.                                                          *)
C13_SearchTermsByMode ==
    pc = "searchSent" =>
        /\ entry.mode = "All" => specs = <<"ALL">>
        /\ entry.mode = "Unread" => specs = <<"UNSEEN">>
        /\ entry.mode = "Since" =>
              /\ Len(specs) = 2
              /\ specs[1] = "SINCE"
              /\ specs[2] = DDMonYYYY(entry.date[1])
              /\ Len(specs[2]) = 11
        /\ entry.mode \in {"All", "Unread", "Since"}

C13_Witness ==
    /\ pc = "searchSent"
    /\ entry.mode = "Since"
    /\ entry.date = <<[year |-> 2006, month |-> 1, day |-> 2]>>
    /\ specs = <<"SINCE", "02-Jan-2006">>
    /\ ~markAsRead /\ delete

(* Vocabulary of the VisibleText properties *)
NonVisibleNames ==
    {"style", "script", "head", "meta", "doctype", "v:shape", "v:imagedata", "!"}
IsTag(t) == t.tt \in {"StartTag", "EndTag"}
\* Positions before token i of the tags with a non-visible name.
NonVisibleTagsBefore(i) == {j \in 1..(i - 1) : IsTag(z[j]) /\ z[j].name \in NonVisibleNames}
MaxOf(S) == CHOOSE m \in S : \A n \in S : n <= m
\* The most recent tag with a non-visible name before token i is a start-tag.
SuppressedAt(i) ==
    LET T == NonVisibleTagsBefore(i) IN T # {} /\ z[MaxOf(T)].tt = "StartTag"
\* The name of the most recent non-visible start-tag before token i.
OnName(i) ==
    LET T == {j \in NonVisibleTagsBefore(i) : z[j].tt = "StartTag"} IN z[MaxOf(T)].name
AllSpace(b) == \A k \in 1..Len(b) : b[k] \in WhiteSpace
\* f is b without its leading and trailing white space, and is not empty.
IsTrimOf(f, b) ==
    /\ f # <<>>
    /\ f[1] \notin WhiteSpace /\ f[Len(f)] \notin WhiteSpace
    /\ \E i, j \in 1..Len(b) :
          /\ f = SubSeq(b, i, j)
          /\ \A k \in 1..(i - 1) : b[k] \in WhiteSpace
          /\ \A k \in (j + 1)..Len(b) : b[k] \in WhiteSpace
\* Positions among the first n tokens of the text tokens met while not
\* suppressed that hold more than white space, in order.
FragmentPositions(n) ==
    SelectSeq([j \in 1..n |-> j],
              LAMBDA j : z[j].tt = "Text" /\ ~SuppressedAt(j) /\ ~AllSpace(z[j].text))

(* C14: at every point of the loop, and in what is returned, the fragments  *)
(* are exactly the text tokens met so far while not suppressed, each        *)
(* without its leading and trailing white space, those that are all white   *)
(* space left out, in the order met; no fragment is empty; the              *)
(* head/style/body example returns "Hi", "there".                           *)
C14_FragmentsAreVisibleTrimmedTexts ==
    pc \in {"vtLoop", "vtReturned"} =>
        LET P == FragmentPositions(zpos - 1) IN
        /\ Len(text) = Len(P)
        /\ \A k \in 1..Len(text) : IsTrimOf(text[k], z[P[k]].text)
        /\ \A k \in 1..Len(text) : text[k] # <<>>
        /\ pc = "vtReturned" => ret.text = text
        /\ (pc = "vtReturned" /\ z = ExampleTokens) =>
              ret.text = << <<"H", "i">>, <<"t", "h", "e", "r", "e">> >>

C14_Witness ==
    /\ pc = "vtReturned"
    /\ z = ExampleTokens
    /\ ret = [text |-> << <<"H", "i">>, <<"t", "h", "e", "r", "e">> >>, err |-> "nil"]

(* C15: VisibleText returns at the first ErrorToken and not before: with    *)
(* io.EOF it returns the fragments of all tokens and a nil error, with any  *)
(* other error that error and the fragments of all tokens before it; once   *)
(* it has returned nothing more happens.                                    *)
C15_ReturnsAtErrorToken ==
    /\ pc = "vtLoop" => (ret = NoReturn /\ zpos <= Len(z) + 1)
    /\ pc = "vtReturned" =>
          /\ zpos = Len(z) + 1
          /\ ret.err = IF zErr = "EOF" THEN "nil" ELSE zErr
          /\ ret.text = text
          /\ Len(ret.text) = Len(FragmentPositions(Len(z)))
          /\ ~ENABLED VTNext

C15_Witness ==
    /\ pc = "vtReturned"
    /\ zErr = "unexpected"
    /\ ret.err = "unexpected"
    /\ Len(ret.text) = 2
    /\ Len(z) = 4

(* C17 as stated: while suppressed, the end-tag with the name of the        *)
(* start-tag that turned suppression on turns it off, and an end-tag with   *)
(* any other name, in the non-visible set or not, leaves it on.             *)
C17_OnlyMatchingEndTagTurnsOff ==
    [][ (pc = "vtLoop" /\ NextTokenType = "EndTag" /\ skip) =>
            (skip' <=> z[zpos].name # OnName(zpos)) ]_vars

(* C17 as amended: an end-tag with a name in the non-visible set turns      *)
(* suppression off, whether or not it is the name of the start-tag that     *)
(* turned it on; an end-tag with a name outside the set leaves suppressed   *)
(* unchanged; a start-tag with a name in the set turns it on.               *)
C17_AnyNonVisibleEndTagTurnsOff ==
    [][ /\ (pc = "vtLoop" /\ NextTokenType = "EndTag") =>
              (skip' <=> (skip /\ z[zpos].name \notin NonVisibleNames))
        /\ (pc = "vtLoop" /\ NextTokenType = "StartTag") =>
              (skip' <=> (skip \/ z[zpos].name \in NonVisibleNames)) ]_vars

C17_Witness ==
    /\ pc = "vtLoop"
    /\ zpos = 3
    /\ z[1] = StartTagToken("style")
    /\ z[2] = EndTagToken("head")
    /\ ~skip

(* C18: suppression is one boolean: after any tokens skip is true exactly   *)
(* when the most recent start- or end-tag with a non-visible name was a     *)
(* start-tag; so after <style><style></style> the text that follows is a    *)
(* fragment although the outer end-tag is still to come.                    *)
C18_SkipIsLastNonVisibleTag ==
    pc \in {"vtLoop", "vtReturned"} =>
        /\ skip <=> SuppressedAt(zpos)
        /\ ( /\ Len(z) = 4 /\ zpos >= 5
             /\ z[1] = StartTagToken("style") /\ z[2] = StartTagToken("style")
             /\ z[3] = EndTagToken("style") /\ z[4] = TextToken(<<"a">>) )
           => text = << <<"a">> >>

C18_Witness ==
    /\ pc = "vtReturned"
    /\ z = <<StartTagToken("style"), StartTagToken("style"), EndTagToken("style"),
             TextToken(<<"a">>)>>
    /\ ret.text = << <<"a">> >>
    /\ ~skip

(* C16: DeleteEmail is one store of +FLAGS \DELETED on the one-element set  *)
(* of its identifier and returns an error exactly when that store failed;   *)
(* when it is called twice in a row on the same identifier and the Session  *)
(* performs the stores, the second call returns no error and leaves the     *)
(* mailbox as the first left it: \DELETED set on that message, every other  *)
(* flag and message as before the first call.                               *)
C16_DeleteIdempotent ==
    /\ \A i \in 1..Len(calls) : calls[i].fn = "DeleteEmail" =>
          /\ Len(calls[i].stores) = 1
          /\ calls[i].stores[1].ids = {calls[i].uid}
          /\ calls[i].stores[1].flg = "+FLAGS"
          /\ calls[i].stores[1].flag = "\\DELETED"
          /\ calls[i].err = "nil" <=> calls[i].stores[1].ok
    /\ \A i \in 1..(Len(calls) - 1) :
          ( /\ calls[i].fn = "DeleteEmail" /\ calls[i + 1].fn = "DeleteEmail"
            /\ calls[i].uid = calls[i + 1].uid
            /\ calls[i].stores[1].ok /\ calls[i + 1].stores[1].ok )
          => /\ calls[i + 1].err = "nil"
             /\ calls[i + 1].after = calls[i].after
             /\ "\\DELETED" \in calls[i + 1].after[calls[i].uid]
             /\ calls[i + 1].after[calls[i].uid] =
                    calls[i].before[calls[i].uid] \cup {"\\DELETED"}
             /\ \A u \in UIDs \ {calls[i].uid} :
                    calls[i + 1].after[u] = calls[i].before[u]
             /\ mailbox = calls[i + 1].after \/ i + 1 < Len(calls)

C16_Witness ==
    /\ Len(calls) = 2
    /\ calls[1].fn = "DeleteEmail" /\ calls[2].fn = "DeleteEmail"
    /\ calls[1].uid = 2 /\ calls[2].uid = 2
    /\ calls[1].err = "nil" /\ calls[2].err = "nil"
    /\ calls[1].before = [u \in UIDs |-> IF u = 1 THEN {"\\DELETED"} ELSE {"\\SEEN"}]
    /\ mailbox = [u \in UIDs |-> IF u = 3 THEN {"\\SEEN"} ELSE
                                 IF u = 2 THEN {"\\SEEN", "\\DELETED"} ELSE {"\\DELETED"}]

====
